---------------------------- MODULE Spec2Model ----------------------------
(***************************************************************************)
(* Button debouncer (single-flag variant, button_debounce.h/.cpp).         *)
(*                                                                         *)
(* A Debouncer holds the last MAX_BUTTON_CHECKS port samples in the array  *)
(* state[], the AND of all of them in debouncedState and the bits that     *)
(* flipped in the last ButtonProcess call in changed.  A sample is stored  *)
(* unchanged when USING_BUTTON_PULLUPS is true and complemented when it is *)
(* false, so a stored 0 bit always means "button asserted".                *)
(***************************************************************************)
EXTENDS Integers, Naturals, Sequences, FiniteSets, TLC

\* ------------------------------------------------------------------------
\* Bounds of the model
\* ------------------------------------------------------------------------

\* Largest history depth (value of the macro MAX_BUTTON_CHECKS) explored.
MaxChecks == 3

\* Number of port pins (pins 0 .. NumPins-1) that carry a button; the other
\* pins of the 8 bit port rest at the idle level of the build.
NumPins == 2

\* Largest history depth explored when two debouncers run side by side.
PairMaxChecks == 2

\* Largest history depth explored when the caller also calls the accessors.
AccessMaxChecks == 1

\* The largest history depth the header allows (MAX_BUTTON_CHECKS "less than
\* or equal to 255"), which is also the largest value of a uint8_t.
MaxDepth == 255

\* Largest history depth explored in the runs of the MSP430 example programs.
MspMaxChecks == 2

\* main.c: #define BUTTON P1_3, RED_LED P1_0, GREEN_LED P1_6 (port bits)
BUTTON == 8
RED_LED == 1
GREEN_LED == 64

\* Number of edges per pin that the observer of the edges counts.
MaxEdges == 3

\* Number of ButtonProcess calls per instance explored when the calls of two
\* instances interleave and are counted.
MaxCalls == 4

VARIABLES
    MAX_BUTTON_CHECKS,      \* build: the history depth N (macro)
    USING_BUTTON_PULLUPS,   \* build: TRUE pull-ups, FALSE pull-downs (macro)
    port1,                  \* the Debouncer instance
    port2,                  \* a second Debouncer instance (paired runs only)
    log,                    \* observer: the last (up to N) raw samples of port1
    fed,                    \* observer: per pin, asserted samples fed in a row
                            \*   since a call that found the pin not pressed
    noisy,                  \* paired runs: the pin A on which the two sample
                            \*   sequences may differ
    agree,                  \* observer (paired runs): trailing calls with equal
                            \*   samples on both instances, saturating at N
    same,                   \* observer (paired runs): per pin, every sample so
                            \*   far had the same bit on both instances
    call,                   \* observer: the latest call, its argument, what it
                            \*   returned, and (nth) how many accessor calls
                            \*   there were since the last ButtonProcess
    calls,                  \* observer (interleaved runs): per instance, the
                            \*   number of ButtonProcess calls so far
    edge,                   \* observer (edge runs): per pin, the latest edge
                            \*   reported for it
    frame,                  \* stepwise runs: the locals and the position of
                            \*   the ButtonProcess call in progress
    mcu                     \* example programs: the registers, the LEDs and
                            \*   the position of the MSP430 program

vars == <<MAX_BUTTON_CHECKS, USING_BUTTON_PULLUPS, port1, port2, log, fed,
          noisy, agree, same, call, calls, edge, frame, mcu>>

\* ------------------------------------------------------------------------
\* uint8_t arithmetic
\* ------------------------------------------------------------------------

Pins == 0 .. (NumPins - 1)

\* bit p of the byte a
Bit(a, p) == (a \div (2 ^ p)) % 2

\* BUTTON_PIN_p: the mask with only bit p set
PinMask(p) == 2 ^ p

RECURSIVE AndBits(_, _)
\* a & b, bit by bit from the lowest
AndBits(a, b) ==
    IF a = 0 \/ b = 0 THEN 0
    ELSE (a % 2) * (b % 2) + 2 * AndBits(a \div 2, b \div 2)

RECURSIVE XorBits(_, _)
\* a ^ b, bit by bit from the lowest
XorBits(a, b) ==
    IF a = 0 THEN b
    ELSE IF b = 0 THEN a
    ELSE ((a + b) % 2) + 2 * XorBits(a \div 2, b \div 2)

\* the two operators tabulated over uint8_t operands
AndTable == [a \in 0 .. 255 |-> [b \in 0 .. 255 |-> AndBits(a, b)]]
XorTable == [a \in 0 .. 255 |-> [b \in 0 .. 255 |-> XorBits(a, b)]]

\* a & b
BitAnd(a, b) == AndTable[a][b]

\* a ^ b
BitXor(a, b) == XorTable[a][b]

\* (uint8_t) ~a
BitNot(a) == 255 - (a % 256)

\* ------------------------------------------------------------------------
\* The Debouncer class
\* ------------------------------------------------------------------------

DebouncerChangedSet ==
    [ state          |-> [i \in 0 .. (MAX_BUTTON_CHECKS - 1) |-> 255],
      index          |-> 0,
      debouncedState |-> 255,
      changed        |-> 255 ]

DebouncerHistoryZero ==
    [ state          |-> [i \in 0 .. (MAX_BUTTON_CHECKS - 1) |-> 0],
      index          |-> 0,
      debouncedState |-> 255,
      changed        |-> 0 ]

DebouncerStartsPressed ==
    [ state          |-> [i \in 0 .. (MAX_BUTTON_CHECKS - 1) |-> 255],
      index          |-> 0,
      debouncedState |-> 0,
      changed        |-> 0 ]

\* Debouncer::Debouncer(): index 0, debouncedState 0xFF, changed 0x00 and
\* every entry of state[] 0xFF.
Debouncer ==
    [ state          |-> [i \in 0 .. (MAX_BUTTON_CHECKS - 1) |-> 255],
      index          |-> 0,
      debouncedState |-> 255,
      changed        |-> 0 ]

NormalizeNever(portStatus, pullups) == portStatus

NormalizeAlways(portStatus, pullups) == BitNot(portStatus)

\* if(USING_BUTTON_PULLUPS == false) portStatus = ~portStatus;
Normalize(portStatus, pullups) ==
    IF pullups = FALSE THEN BitNot(portStatus) ELSE portStatus

StoreSampleAtZero(state, index, portStatus) ==
    [state EXCEPT ![0] = portStatus]

\* state[index] = portStatus;
StoreSample(state, index, portStatus) ==
    [state EXCEPT ![index] = portStatus]

RECURSIVE DebounceLoop(_, _, _)
\* for(i = 0, debouncedState = 0xFF; i < MAX_BUTTON_CHECKS; i++)
\*     debouncedState = debouncedState & state[i];
\* from counter value i with accumulator debouncedState
DebounceLoop(state, i, debouncedState) ==
    IF i < MAX_BUTTON_CHECKS
    THEN DebounceLoop(state, (i + 1) % 256, BitAnd(debouncedState, state[i]))
    ELSE debouncedState

DebounceButtonsNewestOnly(state, index) == BitAnd(255, state[index])

DebounceButtonsSkipFirst(state, index) == DebounceLoop(state, 1, 255)

RECURSIVE BitOr(_, _)
BitOr(a, b) ==
    IF a = 0 THEN b
    ELSE IF b = 0 THEN a
    ELSE (IF a % 2 = 1 \/ b % 2 = 1 THEN 1 ELSE 0) + 2 * BitOr(a \div 2, b \div 2)

RECURSIVE OrLoop(_, _, _)
OrLoop(state, i, debouncedState) ==
    IF i < MAX_BUTTON_CHECKS
    THEN OrLoop(state, i + 1, BitOr(debouncedState, state[i]))
    ELSE debouncedState

DebounceButtonsOr(state, index) == OrLoop(state, 0, 0)

\* The debounce loop of ButtonProcess: the AND of all entries of state[].
\* (index is the slot just written; the loop does not read it.)
DebounceButtons(state, index) == DebounceLoop(state, 0, 255)

NextIndexNoWrap(index) ==
    IF index + 1 >= MAX_BUTTON_CHECKS THEN index ELSE index + 1

\* index++; if(index >= MAX_BUTTON_CHECKS) index = 0;
NextIndex(index) ==
    IF (index + 1) % 256 >= MAX_BUTTON_CHECKS THEN 0 ELSE (index + 1) % 256

CalcChangedSticky(debouncedState, lastDebouncedState) ==
    BitXor(debouncedState, 255)

\* changed = debouncedState ^ lastDebouncedState;
CalcChanged(debouncedState, lastDebouncedState) ==
    BitXor(debouncedState, lastDebouncedState)

\* Debouncer::ButtonProcess(portStatus) on the instance d of a build with
\* USING_BUTTON_PULLUPS = pullups: the instance after the call.
ButtonProcess(d, portStatus, pullups) ==
    LET lastDebouncedState == d.debouncedState
        stored   == Normalize(portStatus, pullups)
        newState == StoreSample(d.state, d.index, stored)
        newDeb   == DebounceButtons(newState, d.index)
    IN  [ state          |-> newState,
          index          |-> NextIndex(d.index),
          debouncedState |-> newDeb,
          changed        |-> CalcChanged(newDeb, lastDebouncedState) ]

ButtonPressedIgnoresPin(d, GPIOButtonPin) ==
    BitAnd(d.changed, BitNot(d.debouncedState)) # 0

\* Debouncer::ButtonPressed(GPIOButtonPin):
\* (changed & (~debouncedState)) & GPIOButtonPin, as a bool
ButtonPressed(d, GPIOButtonPin) ==
    BitAnd(BitAnd(d.changed, BitNot(d.debouncedState)), GPIOButtonPin) # 0

ButtonReleasedLevel(d, GPIOButtonPin) ==
    BitAnd(d.debouncedState, GPIOButtonPin) # 0

\* Debouncer::ButtonReleased(GPIOButtonPin):
\* (changed & debouncedState) & GPIOButtonPin, as a bool
ButtonReleased(d, GPIOButtonPin) ==
    BitAnd(BitAnd(d.changed, d.debouncedState), GPIOButtonPin) # 0

ButtonDebouncedStateGetInverted(d, pullups) ==
    IF pullups = TRUE THEN BitNot(d.debouncedState) ELSE d.debouncedState

\* Debouncer::ButtonDebouncedStateGet(): debouncedState with pull-ups,
\* ~debouncedState with pull-downs
ButtonDebouncedStateGet(d, pullups) ==
    IF pullups = TRUE THEN d.debouncedState ELSE BitNot(d.debouncedState)

AfterButtonPressedEdgeConsumed(d, GPIOButtonPin) ==
    [d EXCEPT !.changed = BitAnd(d.changed, BitNot(GPIOButtonPin))]

\* The instance d after ButtonPressed(GPIOButtonPin): the function assigns
\* no field.
AfterButtonPressed(d, GPIOButtonPin) == d

AfterButtonReleasedEdgeConsumed(d, GPIOButtonPin) ==
    [d EXCEPT !.changed = BitAnd(d.changed, BitNot(GPIOButtonPin))]

\* The instance d after ButtonReleased(GPIOButtonPin): the function assigns
\* no field.
AfterButtonReleased(d, GPIOButtonPin) == d

\* The instance d after ButtonDebouncedStateGet(): the function assigns no
\* field.
AfterButtonDebouncedStateGet(d) == d

OtherAfterProcessSharedIndex(other, d, portStatus) ==
    [other EXCEPT !.index = NextIndex(d.index)]

\* Another instance, other, after d.ButtonProcess(portStatus): state[],
\* index, debouncedState and changed are non-static members, and the
\* function assigns the members of its own instance only.
OtherAfterProcess(other, d, portStatus) == other


\* ------------------------------------------------------------------------
\* The caller: samples of the port and the observers of the runs
\* ------------------------------------------------------------------------

\* What the port reads when no button is asserted: every pin high with
\* pull-ups, every pin low with pull-downs.
IdleLevel(pullups) == IF pullups THEN 255 ELSE 0

\* The level of a pin whose button is asserted: 0 with pull-ups, 1 with
\* pull-downs.
AssertedLevel(pullups) == IF pullups THEN 0 ELSE 1

\* The port samples fed to ButtonProcess: any combination of asserted
\* buttons on the pins that carry one.
Samples(pullups) ==
    { BitXor(IdleLevel(pullups), m) : m \in 0 .. ((2 ^ NumPins) - 1) }

\* Pin p is asserted in the raw sample portStatus.
Asserted(portStatus, p, pullups) ==
    Bit(portStatus, p) = AssertedLevel(pullups)

\* Pin p is pressed in the debounced state of d: the sense ButtonPressed and
\* ButtonReleased give debouncedState (a 0 bit is a pressed button).
IsPressed(d, p) == Bit(d.debouncedState, p) = 0

Min(a, b) == IF a < b THEN a ELSE b

\* The last (up to N) samples after one more sample.
LogAfter(portStatus) ==
    LET all == Append(log, portStatus)
    IN  IF Len(all) > MAX_BUTTON_CHECKS THEN Tail(all) ELSE all

\* Consecutive asserted samples of pin p, counted from a call that found the
\* pin not pressed (0: none, or the pin is deasserted), saturating at N + 1.
FedAfter(portStatus, p) ==
    IF ~Asserted(portStatus, p, USING_BUTTON_PULLUPS) THEN 0
    ELSE IF ~IsPressed(port1, p) THEN 1
    ELSE IF fed[p] > 0 THEN Min(fed[p] + 1, MAX_BUTTON_CHECKS + 1)
    ELSE 0

\* ------------------------------------------------------------------------
\* One debouncer polled by its caller
\* ------------------------------------------------------------------------

\* No edge was reported for any pin yet.
NoEdges == [p \in Pins |-> [last |-> "none", count |-> 0]]

\* No ButtonProcess call is in progress.
NoFrame == [pc |-> "idle", portStatus |-> 0, lastDebouncedState |-> 0,
            i |-> 0, iterations |-> 0]

\* The runs without the example program around the debouncer.
NoMcu == [pc |-> "none"]

\* The observer's record of the construction of the instances.
Constructed == [op |-> "Debouncer", arg |-> 0, ret |-> 0, nth |-> 0]

Init ==
    /\ MAX_BUTTON_CHECKS \in 1 .. MaxChecks
    /\ USING_BUTTON_PULLUPS \in BOOLEAN
    /\ port1 = Debouncer
    /\ port2 = Debouncer
    /\ log = << >>
    /\ fed = [p \in Pins |-> 0]
    /\ noisy = 0
    /\ agree = 0
    /\ same = [p \in Pins |-> TRUE]
    /\ call = Constructed
    /\ calls = <<0, 0>>
    /\ edge = NoEdges
    /\ frame = NoFrame
    /\ mcu = NoMcu

\* The caller reads the port and calls port1.ButtonProcess(portStatus).
Process(portStatus) ==
    /\ port1' = ButtonProcess(port1, portStatus, USING_BUTTON_PULLUPS)
    /\ log' = LogAfter(portStatus)
    /\ fed' = [p \in Pins |-> FedAfter(portStatus, p)]
    /\ call' = [op |-> "ButtonProcess", arg |-> portStatus, ret |-> 0, nth |-> 0]
    /\ UNCHANGED <<MAX_BUTTON_CHECKS, USING_BUTTON_PULLUPS, port2, noisy,
                   agree, same, calls,
                   edge, frame, mcu>>

Next == \E portStatus \in Samples(USING_BUTTON_PULLUPS) : Process(portStatus)

Spec == Init /\ [][Next]_vars

\* ------------------------------------------------------------------------
\* Two debouncers of the same build, each fed its own sample sequence.  The
\* two sequences have the same length and differ, where they differ, on the
\* level of the one pin noisy.
\* ------------------------------------------------------------------------

InitPair ==
    /\ MAX_BUTTON_CHECKS \in 1 .. PairMaxChecks
    /\ USING_BUTTON_PULLUPS \in BOOLEAN
    /\ port1 = Debouncer
    /\ port2 = Debouncer
    /\ log = << >>
    /\ fed = [p \in Pins |-> 0]
    /\ noisy \in Pins
    /\ agree = 0
    /\ same = [p \in Pins |-> TRUE]
    /\ call = Constructed
    /\ calls = <<0, 0>>
    /\ edge = NoEdges
    /\ frame = NoFrame
    /\ mcu = NoMcu

\* port1.ButtonProcess(s1) and port2.ButtonProcess(s2), the k-th call of each.
ProcessPair(s1, s2) ==
    /\ port1' = ButtonProcess(port1, s1, USING_BUTTON_PULLUPS)
    /\ port2' = ButtonProcess(port2, s2, USING_BUTTON_PULLUPS)
    /\ agree' = IF s1 = s2 THEN Min(agree + 1, MAX_BUTTON_CHECKS) ELSE 0
    /\ same' = [p \in Pins |-> same[p] /\ Bit(s1, p) = Bit(s2, p)]
    /\ UNCHANGED <<MAX_BUTTON_CHECKS, USING_BUTTON_PULLUPS, log, fed, noisy,
                   call, calls, edge, frame, mcu>>

NextPair ==
    \E s1 \in Samples(USING_BUTTON_PULLUPS) :
        \E s2 \in {s1, BitXor(s1, PinMask(noisy))} : ProcessPair(s1, s2)

SpecPair == InitPair /\ [][NextPair]_vars

\* ------------------------------------------------------------------------
\* One debouncer whose caller polls it and calls the accessors in any order
\* ------------------------------------------------------------------------

\* The pin masks passed to the accessors: every OR of the pins that carry a
\* button, and all eight pins.
Masks == (0 .. ((2 ^ NumPins) - 1)) \cup {255}

InitAccess ==
    /\ MAX_BUTTON_CHECKS \in 1 .. AccessMaxChecks
    /\ USING_BUTTON_PULLUPS \in BOOLEAN
    /\ port1 = Debouncer
    /\ port2 = Debouncer
    /\ log = << >>
    /\ fed = [p \in Pins |-> 0]
    /\ noisy = 0
    /\ agree = 0
    /\ same = [p \in Pins |-> TRUE]
    /\ call = Constructed
    /\ calls = <<0, 0>>
    /\ edge = NoEdges
    /\ frame = NoFrame
    /\ mcu = NoMcu

\* The caller calls port1.ButtonPressed(GPIOButtonPin).
PressedCall(GPIOButtonPin) ==
    /\ call' = [op |-> "ButtonPressed", arg |-> GPIOButtonPin,
                ret |-> ButtonPressed(port1, GPIOButtonPin),
                nth |-> Min(call.nth + 1, 2)]
    /\ port1' = AfterButtonPressed(port1, GPIOButtonPin)
    /\ UNCHANGED <<MAX_BUTTON_CHECKS, USING_BUTTON_PULLUPS, port2, log, fed,
                   noisy, agree, same, calls,
                   edge, frame, mcu>>

\* The caller calls port1.ButtonReleased(GPIOButtonPin).
ReleasedCall(GPIOButtonPin) ==
    /\ call' = [op |-> "ButtonReleased", arg |-> GPIOButtonPin,
                ret |-> ButtonReleased(port1, GPIOButtonPin),
                nth |-> Min(call.nth + 1, 2)]
    /\ port1' = AfterButtonReleased(port1, GPIOButtonPin)
    /\ UNCHANGED <<MAX_BUTTON_CHECKS, USING_BUTTON_PULLUPS, port2, log, fed,
                   noisy, agree, same, calls,
                   edge, frame, mcu>>

\* The caller calls port1.ButtonDebouncedStateGet().
StateGetCall ==
    /\ call' = [op |-> "ButtonDebouncedStateGet", arg |-> 0,
                ret |-> ButtonDebouncedStateGet(port1, USING_BUTTON_PULLUPS),
                nth |-> Min(call.nth + 1, 2)]
    /\ port1' = AfterButtonDebouncedStateGet(port1)
    /\ UNCHANGED <<MAX_BUTTON_CHECKS, USING_BUTTON_PULLUPS, port2, log, fed,
                   noisy, agree, same, calls,
                   edge, frame, mcu>>

NextAccess ==
    \/ \E portStatus \in Samples(USING_BUTTON_PULLUPS) : Process(portStatus)
    \/ \E GPIOButtonPin \in Masks : PressedCall(GPIOButtonPin)
    \/ \E GPIOButtonPin \in Masks : ReleasedCall(GPIOButtonPin)
    \/ StateGetCall

SpecAccess == InitAccess /\ [][NextAccess]_vars

\* ------------------------------------------------------------------------
\* Two debouncers of the same build whose calls interleave in any order,
\* each call counted.  The samples are idle except for the one pin noisy.
\* ------------------------------------------------------------------------

InitTwo ==
    /\ MAX_BUTTON_CHECKS \in 1 .. PairMaxChecks
    /\ USING_BUTTON_PULLUPS \in BOOLEAN
    /\ port1 = Debouncer
    /\ port2 = Debouncer
    /\ log = << >>
    /\ fed = [p \in Pins |-> 0]
    /\ noisy \in Pins
    /\ agree = 0
    /\ same = [p \in Pins |-> TRUE]
    /\ call = Constructed
    /\ calls = <<0, 0>>
    /\ edge = NoEdges
    /\ frame = NoFrame
    /\ mcu = NoMcu

\* The samples of a port on which only the pin noisy carries a button.
NoisySamples ==
    { IdleLevel(USING_BUTTON_PULLUPS),
      BitXor(IdleLevel(USING_BUTTON_PULLUPS), PinMask(noisy)) }

\* port1.ButtonProcess(portStatus)
Process1(portStatus) ==
    /\ calls[1] < MaxCalls
    /\ port1' = ButtonProcess(port1, portStatus, USING_BUTTON_PULLUPS)
    /\ port2' = OtherAfterProcess(port2, port1, portStatus)
    /\ calls' = [calls EXCEPT ![1] = @ + 1]
    /\ call' = [op |-> "port1.ButtonProcess", arg |-> portStatus,
                ret |-> 0, nth |-> 0]
    /\ UNCHANGED <<MAX_BUTTON_CHECKS, USING_BUTTON_PULLUPS, log, fed, noisy,
                   agree, same, edge, frame, mcu>>

\* port2.ButtonProcess(portStatus)
Process2(portStatus) ==
    /\ calls[2] < MaxCalls
    /\ port2' = ButtonProcess(port2, portStatus, USING_BUTTON_PULLUPS)
    /\ port1' = OtherAfterProcess(port1, port2, portStatus)
    /\ calls' = [calls EXCEPT ![2] = @ + 1]
    /\ call' = [op |-> "port2.ButtonProcess", arg |-> portStatus,
                ret |-> 0, nth |-> 0]
    /\ UNCHANGED <<MAX_BUTTON_CHECKS, USING_BUTTON_PULLUPS, log, fed, noisy,
                   agree, same, edge, frame, mcu>>

NextTwo ==
    \/ \E portStatus \in NoisySamples : Process1(portStatus)
    \/ \E portStatus \in NoisySamples : Process2(portStatus)

SpecTwo == InitTwo /\ [][NextTwo]_vars

\* ------------------------------------------------------------------------
\* One debouncer of a build whose history depth may be 0
\* ------------------------------------------------------------------------

\* The observer's record of a build that the toolchain refuses: with
\* MAX_BUTTON_CHECKS 0 the member state[] is an array of no element, which
\* some toolchains diagnose as an error and others accept.
Rejected == [op |-> "BuildError", arg |-> 0, ret |-> 0, nth |-> 0]

\* The outcomes of building and constructing a debouncer of depth n.  The
\* source holds no check of MAX_BUTTON_CHECKS.
BuildOutcomes(n) == IF n = 0 THEN {Constructed, Rejected} ELSE {Constructed}

InitDepth ==
    /\ MAX_BUTTON_CHECKS \in 0 .. MaxChecks
    /\ USING_BUTTON_PULLUPS \in BOOLEAN
    /\ port1 = Debouncer
    /\ port2 = Debouncer
    /\ log = << >>
    /\ fed = [p \in Pins |-> 0]
    /\ noisy = 0
    /\ agree = 0
    /\ same = [p \in Pins |-> TRUE]
    /\ call \in BuildOutcomes(MAX_BUTTON_CHECKS)
    /\ calls = <<0, 0>>
    /\ edge = NoEdges
    /\ frame = NoFrame
    /\ mcu = NoMcu

\* port1.ButtonProcess(portStatus) on a debouncer that was built.  With no
\* entry in state[] the store state[index] = portStatus is outside the
\* array: either it lands on a byte that the rest of the call overwrites or
\* never reads, and the call returns with debouncedState 0xFF and index 0,
\* or the program faults.
ProcessDepth(portStatus) ==
    /\ call.op \notin {"BuildError", "Fault"}
    /\ \/ /\ port1' = ButtonProcess(port1, portStatus, USING_BUTTON_PULLUPS)
          /\ call' = [op |-> "ButtonProcess", arg |-> portStatus,
                      ret |-> 0, nth |-> 0]
       \/ /\ MAX_BUTTON_CHECKS = 0
          /\ port1' = port1
          /\ call' = [op |-> "Fault", arg |-> portStatus,
                      ret |-> 0, nth |-> 0]
    /\ log' = LogAfter(portStatus)
    /\ fed' = [p \in Pins |-> FedAfter(portStatus, p)]
    /\ UNCHANGED <<MAX_BUTTON_CHECKS, USING_BUTTON_PULLUPS, port2, noisy,
                   agree, same, calls,
                   edge, frame, mcu>>

NextDepth ==
    \E portStatus \in Samples(USING_BUTTON_PULLUPS) : ProcessDepth(portStatus)

SpecDepth == InitDepth /\ [][NextDepth]_vars

\* ------------------------------------------------------------------------
\* One debouncer polled by its caller, with an observer of the edges that
\* ButtonPressed and ButtonReleased report for each pin after every call
\* ------------------------------------------------------------------------

\* The observer's record for pin p after a call that left the debouncer d.
EdgeAfter(d, p) ==
    IF ButtonPressed(d, PinMask(p))
    THEN [last |-> "press", count |-> Min(edge[p].count + 1, MaxEdges)]
    ELSE IF ButtonReleased(d, PinMask(p))
    THEN [last |-> "release", count |-> Min(edge[p].count + 1, MaxEdges)]
    ELSE edge[p]

\* port1.ButtonProcess(portStatus), then ButtonPressed and ButtonReleased
\* for every pin.
ProcessEdges(portStatus) ==
    /\ port1' = ButtonProcess(port1, portStatus, USING_BUTTON_PULLUPS)
    /\ call' = [op |-> "ButtonProcess", arg |-> portStatus, ret |-> 0, nth |-> 0]
    /\ edge' = [p \in Pins |-> EdgeAfter(port1', p)]
    /\ UNCHANGED <<MAX_BUTTON_CHECKS, USING_BUTTON_PULLUPS, port2, log, fed,
                   noisy, agree, same, calls, frame, mcu>>

NextEdges ==
    \E portStatus \in Samples(USING_BUTTON_PULLUPS) : ProcessEdges(portStatus)

\* The debouncer as constructed, for the depths the edges are followed over.
InitEdges ==
    /\ Init
    /\ MAX_BUTTON_CHECKS \in 1 .. PairMaxChecks

SpecEdges == InitEdges /\ [][NextEdges]_vars

\* ------------------------------------------------------------------------
\* The two polarity builds side by side: port1 in the build
\* USING_BUTTON_PULLUPS, port2 in the opposite build, port2 fed the bitwise
\* complement of every sample of port1
\* ------------------------------------------------------------------------

InitMirror ==
    /\ MAX_BUTTON_CHECKS \in 1 .. MaxChecks
    /\ USING_BUTTON_PULLUPS \in BOOLEAN
    /\ port1 = Debouncer
    /\ port2 = Debouncer
    /\ log = << >>
    /\ fed = [p \in Pins |-> 0]
    /\ noisy = 0
    /\ agree = 0
    /\ same = [p \in Pins |-> TRUE]
    /\ call = Constructed
    /\ calls = <<0, 0>>
    /\ edge = NoEdges
    /\ frame = NoFrame
    /\ mcu = NoMcu

\* port1.ButtonProcess(portStatus) in the one build and
\* port2.ButtonProcess(~portStatus) in the other.
ProcessMirror(portStatus) ==
    /\ port1' = ButtonProcess(port1, portStatus, USING_BUTTON_PULLUPS)
    /\ port2' = ButtonProcess(port2, BitNot(portStatus), ~USING_BUTTON_PULLUPS)
    /\ log' = LogAfter(portStatus)
    /\ call' = [op |-> "ButtonProcess", arg |-> portStatus, ret |-> 0, nth |-> 0]
    /\ UNCHANGED <<MAX_BUTTON_CHECKS, USING_BUTTON_PULLUPS, fed, noisy,
                   agree, same, calls, edge, frame, mcu>>

NextMirror ==
    \E portStatus \in Samples(USING_BUTTON_PULLUPS) : ProcessMirror(portStatus)

SpecMirror == InitMirror /\ [][NextMirror]_vars

\* ------------------------------------------------------------------------
\* One ButtonProcess call statement by statement, with the uint8_t locals
\* and members at their width, for history depths up to MaxDepth.  The
\* button on pin 0 is asserted, if at all, in the first sample only.
\* ------------------------------------------------------------------------

\* x++ on a uint8_t
IncU8(x) == (x + 1) % 256

LoopCondInclusive(i) == i <= MAX_BUTTON_CHECKS

\* i < MAX_BUTTON_CHECKS, the condition of the for loop
LoopCond(i) == i < MAX_BUTTON_CHECKS

\* The values a read of state[i] can give: the entry, or any byte when i is
\* outside the array.
Slot(state, i) == IF i \in DOMAIN state THEN {state[i]} ELSE {0, 255}

\* index++; if(index >= MAX_BUTTON_CHECKS) index = 0;  on the uint8_t index
NextIndexU8(index) ==
    IF IncU8(index) >= MAX_BUTTON_CHECKS THEN 0 ELSE IncU8(index)

InitWidth ==
    /\ MAX_BUTTON_CHECKS \in (1 .. MaxChecks) \cup {MaxDepth}
    /\ USING_BUTTON_PULLUPS \in BOOLEAN
    /\ port1 = Debouncer
    /\ port2 = Debouncer
    /\ log = << >>
    /\ fed = [p \in Pins |-> 0]
    /\ noisy = 0
    /\ agree = 0
    /\ same = [p \in Pins |-> TRUE]
    /\ call = Constructed
    /\ calls = <<0, 0>>
    /\ edge = NoEdges
    /\ frame = NoFrame
    /\ mcu = NoMcu

\* The samples of the call to come.
WidthSamples ==
    IF calls[1] = 0 THEN NoisySamples ELSE {IdleLevel(USING_BUTTON_PULLUPS)}

\* Entry of ButtonProcess(portStatus) up to the initialisation of the for
\* loop: lastDebouncedState = debouncedState, the normalisation, the store
\* state[index] = portStatus, i = 0 and debouncedState = 0xFF.
EnterProcess(portStatus) ==
    /\ frame.pc = "idle"
    /\ frame' = [pc |-> "loop", portStatus |-> portStatus,
                 lastDebouncedState |-> port1.debouncedState,
                 i |-> 0, iterations |-> 0]
    /\ port1' = [port1 EXCEPT
                   !.state = StoreSample(port1.state, port1.index,
                                 Normalize(portStatus, USING_BUTTON_PULLUPS)),
                   !.debouncedState = 255]
    /\ UNCHANGED <<MAX_BUTTON_CHECKS, USING_BUTTON_PULLUPS, port2, log, fed,
                   noisy, agree, same, call, calls, edge, mcu>>

\* One iteration of the for loop:
\* debouncedState = debouncedState & state[i]; i++
LoopIteration ==
    /\ frame.pc = "loop"
    /\ LoopCond(frame.i)
    /\ \E entry \in Slot(port1.state, frame.i) :
          port1' = [port1 EXCEPT
                       !.debouncedState = BitAnd(port1.debouncedState, entry)]
    /\ frame' = [frame EXCEPT !.i = IncU8(frame.i),
                              !.iterations = Min(frame.iterations + 1,
                                                 MaxDepth + 1)]
    /\ UNCHANGED <<MAX_BUTTON_CHECKS, USING_BUTTON_PULLUPS, port2, log, fed,
                   noisy, agree, same, call, calls, edge, mcu>>

\* The loop condition fails: the for loop ends.
LoopExit ==
    /\ frame.pc = "loop"
    /\ ~LoopCond(frame.i)
    /\ frame' = [frame EXCEPT !.pc = "index"]
    /\ UNCHANGED <<MAX_BUTTON_CHECKS, USING_BUTTON_PULLUPS, port1, port2, log,
                   fed, noisy, agree, same, call, calls, edge, mcu>>

\* index++; if(index >= MAX_BUTTON_CHECKS) index = 0;
AdvanceIndex ==
    /\ frame.pc = "index"
    /\ port1' = [port1 EXCEPT !.index = NextIndexU8(port1.index)]
    /\ frame' = [frame EXCEPT !.pc = "changed"]
    /\ UNCHANGED <<MAX_BUTTON_CHECKS, USING_BUTTON_PULLUPS, port2, log, fed,
                   noisy, agree, same, call, calls, edge, mcu>>

\* changed = debouncedState ^ lastDebouncedState; and the call returns.
ReturnProcess ==
    /\ frame.pc = "changed"
    /\ port1' = [port1 EXCEPT
                   !.changed = CalcChanged(port1.debouncedState,
                                           frame.lastDebouncedState)]
    /\ frame' = NoFrame
    /\ call' = [op |-> "ButtonProcess", arg |-> frame.portStatus,
                ret |-> 0, nth |-> 0]
    /\ calls' = [calls EXCEPT ![1] = Min(@ + 1, MaxCalls)]
    /\ UNCHANGED <<MAX_BUTTON_CHECKS, USING_BUTTON_PULLUPS, port2, log, fed,
                   noisy, agree, same, edge, mcu>>

NextWidth ==
    \/ \E portStatus \in WidthSamples : EnterProcess(portStatus)
    \/ LoopIteration
    \/ LoopExit
    \/ AdvanceIndex
    \/ ReturnProcess

SpecWidth == InitWidth /\ [][NextWidth]_vars

\* ------------------------------------------------------------------------
\* The debouncer of the C library, which takes the mask of the pulled-up
\* pins when it is initialised and stores the samples as they are read
\* ------------------------------------------------------------------------

\* ButtonDebounceInit(&port, pulledUpButtons)
ButtonDebounceInit(pulledUpButtons) ==
    [ state          |-> [i \in 0 .. (MAX_BUTTON_CHECKS - 1) |-> 255],
      index          |-> 0,
      debouncedState |-> 255,
      changed        |-> 0,
      pullType       |-> pulledUpButtons ]

\* ButtonProcess(&port, portStatus): the sample is stored without
\* normalisation; debouncedState is the AND of the history and changed the
\* XOR with its previous value.
PerPinButtonProcess(d, portStatus) ==
    LET newState == StoreSample(d.state, d.index, portStatus)
        newDeb   == DebounceButtons(newState, d.index)
    IN  [ state          |-> newState,
          index          |-> NextIndex(d.index),
          debouncedState |-> newDeb,
          changed        |-> CalcChanged(newDeb, d.debouncedState),
          pullType       |-> d.pullType ]

\* The pins that count as pressed: a pulled-up pin when its bit of
\* debouncedState is 0, a pulled-down pin when it is 1.
PerPinPressedBits(d) == BitXor(d.debouncedState, d.pullType)

\* ButtonPressed(&port, GPIOButtonPins), a mask
PerPinButtonPressed(d, GPIOButtonPins) ==
    BitAnd(BitAnd(GPIOButtonPins, d.changed), PerPinPressedBits(d))

\* ButtonReleased(&port, GPIOButtonPins), a mask
PerPinButtonReleased(d, GPIOButtonPins) ==
    BitAnd(BitAnd(GPIOButtonPins, d.changed), BitNot(PerPinPressedBits(d)))

\* ------------------------------------------------------------------------
\* The two MSP430 example programs: the polling one, which debounces on
\* every watchdog tick, and the interrupt-driven one, which sleeps in low
\* power mode 4 until the button interrupt wakes it.  The interrupts are
\* served between two statements of the program, or while it sleeps.
\* ------------------------------------------------------------------------

InterruptDisableMissing(gie) == gie

\* INTERRUPT_DISABLE(): the GIE bit after __disable_interrupt()
InterruptDisable(gie) == FALSE

ToggleLedsOn(leds) == TRUE

\* P1OUT ^= RED_LED | GREEN_LED: the two LEDs, both on or both off
ToggleLeds(leds) == ~leds

\* What P1IN reads: the level of the button pin, and the two LED outputs.
P1IN ==
    (IF mcu.line = 1 THEN BUTTON ELSE 0)
        + (IF mcu.leds THEN RED_LED + GREEN_LED ELSE 0)

\* The registers after reset and clock setup, before the GPIO setup.
McuReset(program, line) ==
    [ program       |-> program,
      pc            |-> "setup_gpio",
      lpm           |-> "active",
      GIE           |-> FALSE,
      P1IE          |-> FALSE,
      P1IFG         |-> FALSE,
      WDTIFG        |-> FALSE,
      leds          |-> FALSE,
      buttonPressed |-> FALSE,
      line          |-> line ]

InitMsp ==
    /\ MAX_BUTTON_CHECKS \in 1 .. MspMaxChecks
    /\ USING_BUTTON_PULLUPS = TRUE
    /\ port1 = ButtonDebounceInit(BUTTON)
    /\ port2 = Debouncer
    /\ log = << >>
    /\ fed = [p \in Pins |-> 0]
    /\ noisy = 0
    /\ agree = 0
    /\ same = [p \in Pins |-> TRUE]
    /\ call = Constructed
    /\ calls = <<0, 0>>
    /\ edge = NoEdges
    /\ frame = NoFrame
    /\ \E program \in {"polling", "interrupt"} :
          \E line \in {0, 1} : mcu = McuReset(program, line)

\* Whatever the step leaves alone besides port1, call and mcu.
MspFrame ==
    UNCHANGED <<MAX_BUTTON_CHECKS, USING_BUTTON_PULLUPS, port2, log, fed,
                noisy, agree, same, calls, edge, frame>>

\* The button goes down: a falling edge on P1.3 sets its interrupt flag
\* (P1IES selects the falling edge in the interrupt-driven program).
LineFalls ==
    /\ mcu.line = 1
    /\ mcu' = [mcu EXCEPT !.line = 0,
                          !.P1IFG = IF mcu.program = "interrupt"
                                    THEN TRUE ELSE mcu.P1IFG]
    /\ UNCHANGED <<port1, call>>
    /\ MspFrame

\* The button goes up.
LineRises ==
    /\ mcu.line = 0
    /\ mcu' = [mcu EXCEPT !.line = 1]
    /\ UNCHANGED <<port1, call>>
    /\ MspFrame

\* The watchdog interval elapses; its clock is stopped in low power mode 4.
WdtTick ==
    /\ mcu.lpm # "LPM4"
    /\ mcu.WDTIFG = FALSE
    /\ mcu' = [mcu EXCEPT !.WDTIFG = TRUE]
    /\ UNCHANGED <<port1, call>>
    /\ MspFrame

\* Port1(): LPM_EXIT(); P1IE &= ~BUTTON; P1IFG &= ~BUTTON; (else P1IFG = 0)
Port1Isr ==
    /\ mcu.GIE /\ mcu.P1IE /\ mcu.P1IFG
    /\ mcu' = [mcu EXCEPT !.lpm = "active", !.P1IE = FALSE, !.P1IFG = FALSE]
    /\ call' = [op |-> "Port1", arg |-> 0, ret |-> 0, nth |-> 0]
    /\ UNCHANGED port1
    /\ MspFrame

\* Counter_and_Debouncer(): LPM_EXIT(); the flag clears by itself
WdtIsr ==
    /\ mcu.GIE /\ mcu.WDTIFG
    /\ mcu' = [mcu EXCEPT !.lpm = "active", !.WDTIFG = FALSE]
    /\ call' = [op |-> "Counter_and_Debouncer", arg |-> 0, ret |-> 0, nth |-> 0]
    /\ UNCHANGED port1
    /\ MspFrame

\* setup(): the GPIO setup up to P1IFG &= ~BUTTON (the LEDs off; the polling
\* program goes on to ButtonDebounceInit and returns to main).
SetupGpio ==
    /\ mcu.lpm = "active" /\ mcu.pc = "setup_gpio"
    /\ mcu' = [mcu EXCEPT !.leds = FALSE,
                          !.P1IFG = FALSE,
                          !.pc = IF mcu.program = "interrupt"
                                 THEN "setup_ie" ELSE "loop_process"]
    /\ UNCHANGED <<port1, call>>
    /\ MspFrame

\* setup() of the interrupt-driven program: P1IE |= BUTTON;
\* ButtonDebounceInit(&port1, BUTTON);
SetupIe ==
    /\ mcu.lpm = "active" /\ mcu.pc = "setup_ie"
    /\ mcu' = [mcu EXCEPT !.P1IE = TRUE, !.pc = "setup_lpm4"]
    /\ UNCHANGED <<port1, call>>
    /\ MspFrame

\* LPM_4_ENTER() at the end of setup(), which returns to main and loop().
SetupLpm4 ==
    /\ mcu.lpm = "active" /\ mcu.pc = "setup_lpm4"
    /\ mcu' = [mcu EXCEPT !.GIE = TRUE, !.lpm = "LPM4", !.pc = "loop_test"]
    /\ call' = [op |-> "LPM_4_ENTER", arg |-> 0, ret |-> 0, nth |-> 0]
    /\ UNCHANGED port1
    /\ MspFrame

\* loop() of the interrupt-driven program:
\* if(!(P1IE & BUTTON) && (buttonPressed == false))
LoopTest ==
    /\ mcu.lpm = "active" /\ mcu.pc = "loop_test"
    /\ mcu' = [mcu EXCEPT !.pc = IF ~mcu.P1IE /\ ~mcu.buttonPressed
                                 THEN "loop_load" ELSE "loop_process"]
    /\ UNCHANGED <<port1, call>>
    /\ MspFrame

\* buttonPressed = true; ButtonProcess(&port1, ~BUTTON);
LoopLoad ==
    /\ mcu.lpm = "active" /\ mcu.pc = "loop_load"
    /\ port1' = PerPinButtonProcess(port1, BitNot(BUTTON))
    /\ mcu' = [mcu EXCEPT !.buttonPressed = TRUE, !.pc = "loop_check"]
    /\ call' = [op |-> "ButtonProcess", arg |-> BitNot(BUTTON),
                ret |-> 0, nth |-> 0]
    /\ MspFrame

\* ButtonProcess(&port1, P1IN);
LoopProcess ==
    /\ mcu.lpm = "active" /\ mcu.pc = "loop_process"
    /\ port1' = PerPinButtonProcess(port1, P1IN)
    /\ mcu' = [mcu EXCEPT !.pc = "loop_check"]
    /\ call' = [op |-> "ButtonProcess", arg |-> P1IN, ret |-> 0, nth |-> 0]
    /\ MspFrame

\* if(ButtonPressed(&port1, BUTTON)) P1OUT ^= RED_LED | GREEN_LED;
\* then LPM_0_ENTER() (in the polling program at the end of loop())
LoopPressed ==
    /\ mcu.lpm = "active" /\ mcu.pc = "loop_check"
    /\ PerPinButtonPressed(port1, BUTTON) # 0
    /\ mcu' = [mcu EXCEPT !.leds = ToggleLeds(mcu.leds), !.pc = "lpm0"]
    /\ UNCHANGED <<port1, call>>
    /\ MspFrame

\* else if(ButtonReleased(&port1, BUTTON)) P1OUT ^= RED_LED | GREEN_LED;
\* and, in the interrupt-driven program, buttonPressed = false
LoopReleased ==
    /\ mcu.lpm = "active" /\ mcu.pc = "loop_check"
    /\ PerPinButtonPressed(port1, BUTTON) = 0
    /\ PerPinButtonReleased(port1, BUTTON) # 0
    /\ mcu' = [mcu EXCEPT !.leds = ToggleLeds(mcu.leds),
                          !.buttonPressed = FALSE,
                          !.pc = IF mcu.program = "interrupt"
                                 THEN "disable" ELSE "lpm0"]
    /\ UNCHANGED <<port1, call>>
    /\ MspFrame

\* else: neither edge
LoopNoEdge ==
    /\ mcu.lpm = "active" /\ mcu.pc = "loop_check"
    /\ PerPinButtonPressed(port1, BUTTON) = 0
    /\ PerPinButtonReleased(port1, BUTTON) = 0
    /\ mcu' = [mcu EXCEPT !.pc = "lpm0"]
    /\ UNCHANGED <<port1, call>>
    /\ MspFrame

\* LPM_0_ENTER(), after which loop() returns and is called again.
Lpm0Enter ==
    /\ mcu.lpm = "active" /\ mcu.pc = "lpm0"
    /\ mcu' = [mcu EXCEPT !.GIE = TRUE, !.lpm = "LPM0",
                          !.pc = IF mcu.program = "interrupt"
                                 THEN "loop_test" ELSE "loop_process"]
    /\ call' = [op |-> "LPM_0_ENTER", arg |-> 0, ret |-> 0, nth |-> 0]
    /\ UNCHANGED port1
    /\ MspFrame

\* INTERRUPT_DISABLE();
LoopDisable ==
    /\ mcu.lpm = "active" /\ mcu.pc = "disable"
    /\ mcu' = [mcu EXCEPT !.GIE = InterruptDisable(mcu.GIE), !.pc = "enable"]
    /\ UNCHANGED <<port1, call>>
    /\ MspFrame

\* P1IE |= BUTTON;
LoopEnable ==
    /\ mcu.lpm = "active" /\ mcu.pc = "enable"
    /\ mcu' = [mcu EXCEPT !.P1IE = TRUE, !.pc = "lpm4"]
    /\ UNCHANGED <<port1, call>>
    /\ MspFrame

\* LPM_4_ENTER(), after which loop() returns and is called again.
LoopLpm4 ==
    /\ mcu.lpm = "active" /\ mcu.pc = "lpm4"
    /\ mcu' = [mcu EXCEPT !.GIE = TRUE, !.lpm = "LPM4", !.pc = "loop_test"]
    /\ call' = [op |-> "LPM_4_ENTER", arg |-> 0, ret |-> 0, nth |-> 0]
    /\ UNCHANGED port1
    /\ MspFrame

NextMsp ==
    \/ LineFalls
    \/ LineRises
    \/ WdtTick
    \/ Port1Isr
    \/ WdtIsr
    \/ SetupGpio
    \/ SetupIe
    \/ SetupLpm4
    \/ LoopTest
    \/ LoopLoad
    \/ LoopProcess
    \/ LoopPressed
    \/ LoopReleased
    \/ LoopNoEdge
    \/ Lpm0Enter
    \/ LoopDisable
    \/ LoopEnable
    \/ LoopLpm4

SpecMsp == InitMsp /\ [][NextMsp]_vars

\* The hardware serves an interrupt that stays requested and enabled.
SpecMspFair == SpecMsp /\ WF_vars(Port1Isr) /\ WF_vars(WdtIsr)

\* ------------------------------------------------------------------------
\* Vocabulary of the properties
\* ------------------------------------------------------------------------

N == MAX_BUTTON_CHECKS

\* Number of ButtonProcess calls so far, saturating at N.
Calls == Len(log)

\* The sample of the latest call has pin p deasserted, and so have all of the
\* N latest samples.
WindowDeasserted(lg, p) ==
    /\ Len(lg) = N
    /\ \A i \in 1 .. Len(lg) : ~Asserted(lg[i], p, USING_BUTTON_PULLUPS)

\* All samples since construction (fewer than N of them) alternate on pin p:
\* asserted, deasserted, asserted, ...
AlternatingSinceIdle(p) ==
    /\ Calls >= 1
    /\ Calls < N
    /\ \A i \in 1 .. Len(log) :
          Asserted(log[i], p, USING_BUTTON_PULLUPS) <=> (i % 2 = 1)

\* ------------------------------------------------------------------------
\* C1  Confirmed press
\* ------------------------------------------------------------------------

\* C1 as stated: starting from a not-pressed pin, k asserted samples in a row
\* leave the pin not pressed and without edge while k < N, make it pressed
\* with ButtonPressed true at k = N, and ButtonPressed is false for k > N.
C1_ConfirmedPressOnNthCall ==
    \A p \in Pins :
        /\ (fed[p] >= 1 /\ fed[p] < N) =>
              (~IsPressed(port1, p) /\ ~ButtonPressed(port1, PinMask(p)))
        /\ (fed[p] = N) =>
              (IsPressed(port1, p) /\ ButtonPressed(port1, PinMask(p)))
        /\ (fed[p] > N) => ~ButtonPressed(port1, PinMask(p))

\* C1 amended: starting from a not-pressed pin, the first asserted sample
\* makes the pin pressed and ButtonPressed true; after each later asserted
\* sample of the run the pin is still pressed and ButtonPressed is false.
C1_PressOnFirstCall ==
    \A p \in Pins :
        /\ (fed[p] = 1) =>
              (IsPressed(port1, p) /\ ButtonPressed(port1, PinMask(p)))
        /\ (fed[p] >= 2) =>
              (IsPressed(port1, p) /\ ~ButtonPressed(port1, PinMask(p)))

\* N >= 2 asserted samples in a row were fed to a pin that was not pressed.
C1_Witness ==
    \E p \in Pins : N >= 2 /\ fed[p] = N /\ IsPressed(port1, p)

\* ------------------------------------------------------------------------
\* C2  Instant release sensitivity
\* ------------------------------------------------------------------------

\* C2 as stated: a call that finds pin p pressed and whose sample has p
\* deasserted leaves p not pressed and ButtonReleased(p) true.
C2_InstantRelease ==
    [][ \A p \in Pins :
          (IsPressed(port1, p)
             /\ ~Asserted(log'[Len(log')], p, USING_BUTTON_PULLUPS))
          => (~IsPressed(port1', p) /\ ButtonReleased(port1', PinMask(p))) ]_vars

\* C2 amended: such a call leaves p not pressed, and ButtonReleased(p) true,
\* exactly when its sample is the N-th deasserted one in a row; otherwise p
\* stays pressed and ButtonReleased(p) is false.
C2_ReleaseOnFullWindow ==
    [][ \A p \in Pins :
          (IsPressed(port1, p)
             /\ ~Asserted(log'[Len(log')], p, USING_BUTTON_PULLUPS))
          => /\ ~IsPressed(port1', p) <=> WindowDeasserted(log', p)
             /\ ButtonReleased(port1', PinMask(p)) <=> WindowDeasserted(log', p) ]_vars

\* A pressed pin has just been released, with a window of more than one sample.
C2_Witness ==
    \E p \in Pins :
        /\ N >= 2
        /\ ButtonReleased(port1, PinMask(p))
        /\ WindowDeasserted(log, p)

\* ------------------------------------------------------------------------
\* C3  Debounce suppression
\* ------------------------------------------------------------------------

\* C3 as stated: while fewer than N alternating samples have been fed since
\* construction, the pin is still not pressed and no edge is reported.
C3_AlternationNeverFlips ==
    \A p \in Pins :
        AlternatingSinceIdle(p) =>
            /\ ~IsPressed(port1, p)
            /\ ~ButtonPressed(port1, PinMask(p))
            /\ ~ButtonReleased(port1, PinMask(p))

\* C3 amended: the first (asserted) sample makes the pin pressed, with
\* ButtonPressed true after that call only; the deasserted samples of the
\* alternation never release it.
C3_AlternationFlipsOnce ==
    \A p \in Pins :
        AlternatingSinceIdle(p) =>
            /\ IsPressed(port1, p)
            /\ ButtonPressed(port1, PinMask(p)) <=> (Calls = 1)
            /\ ~ButtonReleased(port1, PinMask(p))

\* Asserted, deasserted has been fed to a pin of a debouncer with N >= 3.
C3_Witness ==
    \E p \in Pins : AlternatingSinceIdle(p) /\ Calls = 2

\* ------------------------------------------------------------------------
\* C4  debouncedState is the AND of the history
\* ------------------------------------------------------------------------

\* C4: bit b of debouncedState is 1 iff bit b is 1 in every entry of state[].
C4_DebouncedIsAndOfHistory ==
    \A b \in 0 .. 7 :
        (Bit(port1.debouncedState, b) = 1)
            <=> (\A i \in 0 .. (N - 1) : Bit(port1.state[i], b) = 1)

\* The history holds different entries and some pin is pressed.
C4_Witness ==
    /\ Calls >= 2
    /\ \E i, j \in 0 .. (N - 1) : port1.state[i] # port1.state[j]
    /\ port1.debouncedState # 255

\* ------------------------------------------------------------------------
\* C5  changed is the XOR of the new and the previous debouncedState
\* ------------------------------------------------------------------------

\* C5: after a call, bit b of changed is 1 iff bit b of debouncedState
\* differs from its value before the call; a call that leaves debouncedState
\* as it was sets changed to 0; and an edge reported for a pin after one call
\* is not reported after the next.
C5_ChangedIsXor ==
    [][ /\ \A b \in 0 .. 7 :
              (Bit(port1'.changed, b) = 1)
                  <=> (Bit(port1'.debouncedState, b) # Bit(port1.debouncedState, b))
        /\ (port1'.debouncedState = port1.debouncedState) => (port1'.changed = 0)
        /\ \A p \in Pins :
              /\ ButtonPressed(port1, PinMask(p)) => ~ButtonPressed(port1', PinMask(p))
              /\ ButtonReleased(port1, PinMask(p)) => ~ButtonReleased(port1', PinMask(p))
      ]_vars

\* The call after a press edge: the pin is still pressed and changed is 0.
C5_Witness ==
    \E p \in Pins :
        fed[p] = 2 /\ IsPressed(port1, p) /\ port1.changed = 0

\* ------------------------------------------------------------------------
\* C6  Window wraparound
\* ------------------------------------------------------------------------

\* C6: two debouncers fed sample sequences of the same length whose last N
\* samples are equal have the same debouncedState.
C6_OldSamplesForgotten ==
    (agree >= N) => (port1.debouncedState = port2.debouncedState)

\* The two sequences differed before their last N samples, and a pin is
\* pressed.
C6_Witness ==
    /\ agree >= N
    /\ \E p \in Pins : ~same[p]
    /\ port1.debouncedState # 255

\* ------------------------------------------------------------------------
\* C7  Independence across pins
\* ------------------------------------------------------------------------

\* C7: two debouncers fed sample sequences that agree on bit B in every
\* sample agree on bit B of debouncedState and on ButtonPressed(B) and
\* ButtonReleased(B).
C7_PinsIndependent ==
    \A B \in Pins :
        same[B] =>
            /\ Bit(port1.debouncedState, B) = Bit(port2.debouncedState, B)
            /\ ButtonPressed(port1, PinMask(B)) = ButtonPressed(port2, PinMask(B))
            /\ ButtonReleased(port1, PinMask(B)) = ButtonReleased(port2, PinMask(B))

\* The sequences agree on pin B and differ on pin A; A is pressed in one
\* debouncer only, with an edge there, while B has no edge.
C7_Witness ==
    \E A, B \in Pins :
        /\ A # B
        /\ same[B]
        /\ ~same[A]
        /\ IsPressed(port1, A) /\ ~IsPressed(port2, A)
        /\ ButtonPressed(port1, PinMask(A))
        /\ ~ButtonPressed(port1, PinMask(B))

\* ------------------------------------------------------------------------
\* C8  Polarity correctness
\* ------------------------------------------------------------------------

\* The button on pin p is down in the latest sample.
ButtonDown(p) ==
    Calls >= 1 /\ Asserted(log[Len(log)], p, USING_BUTTON_PULLUPS)

\* The button on pin p has not been down in any sample of the window.
ButtonUp(p) ==
    Calls = 0 \/ WindowDeasserted(log, p)

BoolToInt(b) == IF b THEN 1 ELSE 0

\* The pins selected by mask that d reports as just pressed: their changed
\* bit is set and they are pressed.
JustPressed(d, mask) ==
    { b \in 0 .. 7 : Bit(mask, b) = 1 /\ Bit(d.changed, b) = 1 /\ IsPressed(d, b) }

\* The pins selected by mask that d reports as just released: their changed
\* bit is set and they are not pressed.
JustReleased(d, mask) ==
    { b \in 0 .. 7 : Bit(mask, b) = 1 /\ Bit(d.changed, b) = 1 /\ ~IsPressed(d, b) }

C13_EdgeOfLatestProcess ==
    [][ /\ \A mask \in Masks :
              /\ ButtonPressed(port1', mask)
                    <=> (\E b \in 0 .. 7 :
                            /\ Bit(mask, b) = 1
                            /\ ~IsPressed(port1, b)
                            /\ IsPressed(port1', b))
              /\ ButtonReleased(port1', mask)
                    <=> (\E b \in 0 .. 7 :
                            /\ Bit(mask, b) = 1
                            /\ IsPressed(port1, b)
                            /\ ~IsPressed(port1', b))
        /\ ~ButtonPressed(port1', 0)
        /\ ~ButtonReleased(port1', 0) ]_vars

\* The latest call pressed one pin and released another.
C13_Witness ==
    \E p, q \in Pins :
        /\ ButtonPressed(port1, PinMask(p))
        /\ ~ButtonPressed(port1, PinMask(q))
        /\ ButtonReleased(port1, PinMask(q))
        /\ ButtonPressed(port1, 255)

\* ------------------------------------------------------------------------
\* C14  The accessors do not change the debouncer
\* ------------------------------------------------------------------------

Accessors == {"ButtonPressed", "ButtonReleased", "ButtonDebouncedStateGet"}

\* C14: a call of ButtonPressed, ButtonReleased or ButtonDebouncedStateGet
\* leaves state[], index, debouncedState and changed as they were; a step
\* that changes one of them is a ButtonProcess call.
C14_AccessorsReadOnly ==
    [][ /\ (call'.op \in Accessors) =>
              /\ port1'.state = port1.state
              /\ port1'.index = port1.index
              /\ port1'.debouncedState = port1.debouncedState
              /\ port1'.changed = port1.changed
        /\ (port1' # port1) => (call'.op = "ButtonProcess") ]_vars

\* ButtonPressed returned true in a second accessor call after a
\* ButtonProcess, and the edge is still recorded in changed.
C14_Witness ==
    /\ call.op = "ButtonPressed"
    /\ call.ret = TRUE
    /\ call.nth = 2
    /\ port1.changed # 0

\* ------------------------------------------------------------------------
\* C15  Reading an edge does not consume it
\* ------------------------------------------------------------------------

\* C15: an accessor call returns what the debouncer answers after the call
\* as well, leaves the answers of ButtonPressed and ButtonReleased for every
\* mask as they were, and a call repeated with the same mask returns the same
\* answer.
C15_EdgeNotConsumed ==
    [][ (call'.op \in Accessors) =>
          /\ \A mask \in Masks :
                /\ ButtonPressed(port1', mask) = ButtonPressed(port1, mask)
                /\ ButtonReleased(port1', mask) = ButtonReleased(port1, mask)
          /\ (call'.op = "ButtonPressed") =>
                (call'.ret = ButtonPressed(port1', call'.arg))
          /\ (call'.op = "ButtonReleased") =>
                (call'.ret = ButtonReleased(port1', call'.arg))
          /\ (call'.op = call.op /\ call'.arg = call.arg) =>
                (call'.ret = call.ret) ]_vars

\* ButtonReleased returned true in a second accessor call after a
\* ButtonProcess.
C15_Witness ==
    /\ call.op = "ButtonReleased"
    /\ call.ret = TRUE
    /\ call.nth = 2

\* ------------------------------------------------------------------------
\* C20  The state after construction
\* ------------------------------------------------------------------------

\* C20: before the first call, whichever the polarity of the build, index
\* is 0, changed is 0, debouncedState is 0xFF and state[] has exactly N
\* entries, every one 0xFF, so that no pin counts as pressed.
C20_ConstructedState ==
    (call.op = "Debouncer") =>
        /\ USING_BUTTON_PULLUPS \in BOOLEAN
        /\ port1.index = 0
        /\ port1.changed = 0
        /\ port1.debouncedState = 255
        /\ DOMAIN port1.state = 0 .. (N - 1)
        /\ \A i \in 0 .. (N - 1) : port1.state[i] = 255
        /\ \A b \in 0 .. 7 : ~IsPressed(port1, b)

\* A freshly constructed debouncer of a pull-down build with a history of
\* more than one entry.
C20_Witness ==
    /\ call.op = "Debouncer"
    /\ USING_BUTTON_PULLUPS = FALSE
    /\ N >= 2
    /\ port1 = Debouncer

\* ------------------------------------------------------------------------
\* C18  One slot of the history per call, in ring order
\* ------------------------------------------------------------------------

\* C18: a ButtonProcess call stores the normalised sample in the slot of
\* state[] at the index held before the call, leaves the other N-1 slots as
\* they were and advances index by one modulo N; so the N latest samples
\* occupy the N slots, one each, in ring order from the oldest at the new
\* index.
C18_OneSlotPerCall ==
    [][ (call'.op = "ButtonProcess") =>
          /\ port1'.state[port1.index] =
                 Normalize(call'.arg, USING_BUTTON_PULLUPS)
          /\ \A i \in 0 .. (N - 1) :
                 (i # port1.index) => (port1'.state[i] = port1.state[i])
          /\ port1'.index = (port1.index + 1) % N
          /\ (Len(log') = N) =>
                 \A j \in 0 .. (N - 1) :
                     port1'.state[(port1'.index + j) % N] =
                         Normalize(log'[j + 1], USING_BUTTON_PULLUPS) ]_vars

\* The index has wrapped to slot 0 after at least N calls on a history of
\* more than one entry, and the slots hold different samples.
C18_Witness ==
    /\ call.op = "ButtonProcess"
    /\ N >= 2
    /\ Calls = N
    /\ port1.index = 0
    /\ port1.state[0] # port1.state[1]

\* ------------------------------------------------------------------------
\* C17  Two instances share nothing
\* ------------------------------------------------------------------------

\* The accessors answer the same on the instances d and e.
SameAnswers(d, e) ==
    /\ \A mask \in Masks :
          /\ ButtonPressed(d, mask) = ButtonPressed(e, mask)
          /\ ButtonReleased(d, mask) = ButtonReleased(e, mask)
    /\ ButtonDebouncedStateGet(d, USING_BUTTON_PULLUPS) =
           ButtonDebouncedStateGet(e, USING_BUTTON_PULLUPS)

\* C17: whatever the order of the calls on two instances, a ButtonProcess
\* call on one leaves state[], index, debouncedState and changed of the
\* other as they were, and with them the answers of the other's accessors.
C17_InstancesIsolated ==
    [][ /\ (call'.op = "port1.ButtonProcess") =>
              /\ port2'.state = port2.state
              /\ port2'.index = port2.index
              /\ port2'.debouncedState = port2.debouncedState
              /\ port2'.changed = port2.changed
              /\ SameAnswers(port2', port2)
        /\ (call'.op = "port2.ButtonProcess") =>
              /\ port1'.state = port1.state
              /\ port1'.index = port1.index
              /\ port1'.debouncedState = port1.debouncedState
              /\ port1'.changed = port1.changed
              /\ SameAnswers(port1', port1) ]_vars

\* port1 still reports the press of its latest call after a call on port2
\* that found nothing to report, the two having been called a different
\* number of times.
C17_Witness ==
    /\ call.op = "port2.ButtonProcess"
    /\ ButtonPressed(port1, PinMask(noisy))
    /\ port2.changed = 0
    /\ calls[1] >= 1
    /\ calls[2] > calls[1]
    /\ port1.index # port2.index

\* ------------------------------------------------------------------------
\* C19  The index stays inside the history
\* ------------------------------------------------------------------------

\* C19: in every reachable state the index of each instance is in 0 .. N-1
\* (a slot of state[]), and after k ButtonProcess calls on the instance it
\* is k mod N.
C19_IndexInRange ==
    /\ port1.index \in 0 .. (N - 1)
    /\ port2.index \in 0 .. (N - 1)
    /\ port1.index \in DOMAIN port1.state
    /\ port2.index \in DOMAIN port2.state
    /\ port1.index = calls[1] % N
    /\ port2.index = calls[2] % N

\* More than N calls on port1 with a history of more than one entry: the
\* index has wrapped and stands at slot 1.
C19_Witness ==
    /\ N >= 2
    /\ calls[1] > N
    /\ port1.index = 1
    /\ calls[2] = 0

\* ------------------------------------------------------------------------
\* C16  A history depth of 0
\* ------------------------------------------------------------------------

\* C16: a debouncer of history depth 0 is rejected when it is built and
\* constructed: the outcome is an error, never an instance on which
\* ButtonProcess can be called.
C16_DepthZeroRejected ==
    (MAX_BUTTON_CHECKS = 0) => (call.op = "BuildError")

\* ------------------------------------------------------------------------
\* C21  The polarity is normalised when the sample is stored
\* ------------------------------------------------------------------------

\* The slot of state[] that the latest ButtonProcess call wrote.
LatestSlot == (port1.index + N - 1) % N

\* C21: ButtonProcess stores the raw sample as it is in a pull-up build and
\* its 8 bit complement in a pull-down build, so that a 0 bit of the stored
\* entry means, in both builds, that the pin was asserted in the sample.
C21_NormalizedAtWrite ==
    (call.op = "ButtonProcess") =>
        /\ (USING_BUTTON_PULLUPS = TRUE) =>
               (port1.state[LatestSlot] = call.arg)
        /\ (USING_BUTTON_PULLUPS = FALSE) =>
               (port1.state[LatestSlot] = 255 - call.arg)
        /\ \A b \in 0 .. 7 :
               (Bit(port1.state[LatestSlot], b) = 0) <=>
                   Asserted(call.arg, b, USING_BUTTON_PULLUPS)

\* A pull-down build has stored the complement of a sample in which one
\* button is asserted and another is not.
C21_Witness ==
    /\ call.op = "ButtonProcess"
    /\ USING_BUTTON_PULLUPS = FALSE
    /\ Asserted(call.arg, 0, FALSE)
    /\ ~Asserted(call.arg, 1, FALSE)
    /\ port1.state[LatestSlot] = 255 - call.arg
    /\ port1.state[LatestSlot] # call.arg

\* ------------------------------------------------------------------------
\* C23  A press is reported without delay
\* ------------------------------------------------------------------------

\* C23: from any reachable state in which pin p is not pressed, one
\* ButtonProcess call whose sample has p asserted leaves p pressed and
\* ButtonPressed(p) true.
C23_PressWithoutDelay ==
    [][ \A p \in Pins :
          (/\ call'.op = "ButtonProcess"
           /\ ~IsPressed(port1, p)
           /\ Asserted(call'.arg, p, USING_BUTTON_PULLUPS))
          => (IsPressed(port1', p) /\ ButtonPressed(port1', PinMask(p))) ]_vars

\* A pin is reported pressed by a call that came after a deasserted sample
\* of that pin, the history being longer than one entry.
C23_Witness ==
    \E p \in Pins :
        /\ call.op = "ButtonProcess"
        /\ N >= 2
        /\ Len(log) >= 2
        /\ ~Asserted(log[Len(log) - 1], p, USING_BUTTON_PULLUPS)
        /\ Asserted(call.arg, p, USING_BUTTON_PULLUPS)
        /\ ButtonPressed(port1, PinMask(p))

\* ------------------------------------------------------------------------
\* C24  A release takes a full window
\* ------------------------------------------------------------------------

\* C24: a pressed pin p stays pressed over a ButtonProcess call unless the
\* N latest samples, the one of the call included, all have p deasserted;
\* ButtonReleased(p) is true after a call exactly when the call found p
\* pressed and completed such a window; an asserted sample keeps p pressed
\* without release edge.
C24_ReleaseByFullWindow ==
    [][ \A p \in Pins :
          (call'.op = "ButtonProcess") =>
             /\ IsPressed(port1, p) =>
                   (IsPressed(port1', p) <=> ~WindowDeasserted(log', p))
             /\ ButtonReleased(port1', PinMask(p)) <=>
                   (IsPressed(port1, p) /\ WindowDeasserted(log', p))
             /\ (IsPressed(port1, p)
                   /\ Asserted(call'.arg, p, USING_BUTTON_PULLUPS)) =>
                   (IsPressed(port1', p)
                      /\ ~ButtonReleased(port1', PinMask(p))) ]_vars

\* One pin has just been released by a window of more than one sample while
\* another pin is still pressed.
C24_Witness ==
    \E p, q \in Pins :
        /\ N >= 2
        /\ ButtonReleased(port1, PinMask(p))
        /\ WindowDeasserted(log, p)
        /\ IsPressed(port1, q)

\* ------------------------------------------------------------------------
\* C25  No pin is both just pressed and just released
\* ------------------------------------------------------------------------

\* The pins for which ButtonPressed, ButtonReleased answer true when asked
\* about the single pin.
PressedPins(d) == { b \in 0 .. 7 : ButtonPressed(d, PinMask(b)) }
ReleasedPins(d) == { b \in 0 .. 7 : ButtonReleased(d, PinMask(b)) }

\* C25: for no single pin are ButtonPressed and ButtonReleased both true;
\* the just-pressed pins and the just-released pins are disjoint and
\* together they are the pins whose bit of changed is set.
C25_EdgesDisjoint ==
    /\ PressedPins(port1) \cap ReleasedPins(port1) = {}
    /\ PressedPins(port1) \cup ReleasedPins(port1) =
           { b \in 0 .. 7 : Bit(port1.changed, b) = 1 }
    /\ BitAnd(BitAnd(port1.changed, BitNot(port1.debouncedState)),
              BitAnd(port1.changed, port1.debouncedState)) = 0

\* One call pressed one pin and released another.
C25_Witness ==
    /\ PressedPins(port1) # {}
    /\ ReleasedPins(port1) # {}

\* ------------------------------------------------------------------------
\* C27  An edge agrees with the sample just processed
\* ------------------------------------------------------------------------

\* C27: after ButtonProcess(s), ButtonPressed(p) true implies that p is
\* asserted in s, and ButtonReleased(p) true implies that p is deasserted
\* in s and in every one of the N latest samples.
C27_EdgeAgreesWithSample ==
    (call.op = "ButtonProcess") =>
        \A p \in Pins :
            /\ ButtonPressed(port1, PinMask(p)) =>
                   Asserted(call.arg, p, USING_BUTTON_PULLUPS)
            /\ ButtonReleased(port1, PinMask(p)) =>
                   /\ ~Asserted(call.arg, p, USING_BUTTON_PULLUPS)
                   /\ WindowDeasserted(log, p)

\* A release edge of one pin after a call whose sample has another pin
\* asserted and held, with a history of more than one entry.
C27_Witness ==
    \E p, q \in Pins :
        /\ call.op = "ButtonProcess"
        /\ N >= 2
        /\ ButtonReleased(port1, PinMask(p))
        /\ Asserted(call.arg, q, USING_BUTTON_PULLUPS)
        /\ ~ButtonPressed(port1, PinMask(q))

\* ------------------------------------------------------------------------
\* C26  The edges of a pin alternate, starting with a press
\* ------------------------------------------------------------------------

\* C26: whenever a call reports a press edge for pin p, the latest edge
\* reported for p before it, if any, was a release; whenever it reports a
\* release edge, there was an edge before and the latest was a press.
C26_EdgesAlternate ==
    [][ \A p \in Pins :
          /\ ButtonPressed(port1', PinMask(p)) =>
                 (edge[p].last \in {"none", "release"})
          /\ ButtonReleased(port1', PinMask(p)) =>
                 (edge[p].last = "press" /\ edge[p].count >= 1)
          /\ (edge[p].last = "none") <=> (edge[p].count = 0) ]_vars

\* A pin has been pressed, released and pressed again, with a history of
\* more than one entry.
C26_Witness ==
    \E p \in Pins :
        /\ N >= 2
        /\ edge[p].count >= 3
        /\ edge[p].last = "press"
        /\ ButtonPressed(port1, PinMask(p))

\* ------------------------------------------------------------------------
\* C28  The two polarity builds mirror each other
\* ------------------------------------------------------------------------

\* C28: after every call, the build of one polarity on a sample sequence
\* and the build of the other polarity on the complemented sequence have
\* the same state[], index, debouncedState and changed and give the same
\* ButtonPressed and ButtonReleased answers for every mask, while what
\* ButtonDebouncedStateGet returns in the one is the bitwise complement of
\* what it returns in the other.
C28_BuildsMirror ==
    /\ port1.state = port2.state
    /\ port1.index = port2.index
    /\ port1.debouncedState = port2.debouncedState
    /\ port1.changed = port2.changed
    /\ \A mask \in Masks :
          /\ ButtonPressed(port1, mask) = ButtonPressed(port2, mask)
          /\ ButtonReleased(port1, mask) = ButtonReleased(port2, mask)
    /\ ButtonDebouncedStateGet(port1, USING_BUTTON_PULLUPS) =
           255 - ButtonDebouncedStateGet(port2, ~USING_BUTTON_PULLUPS)

\* port1 is the pull-down build; a call has just changed the debounced
\* state of a pin while another pin is in the other state, with a history
\* of more than one entry.
C28_Witness ==
    /\ USING_BUTTON_PULLUPS = FALSE
    /\ call.op = "ButtonProcess"
    /\ N >= 2
    /\ port1.changed # 0
    /\ port1.debouncedState \notin {0, 255}
    /\ \E p, q \in Pins : IsPressed(port1, p) /\ ~IsPressed(port2, q)

\* ------------------------------------------------------------------------
\* C22  The uint8_t counters at the largest history depth
\* ------------------------------------------------------------------------

\* C22: for every history depth up to 255, neither the loop counter i nor
\* index ever wraps around from 255 to 0 by an increment: the for loop
\* reads the slots 0, 1, ..., N-1 once each and ends with i = N, and index
\* goes up by one and is reset to 0 when it reaches N.
C22_CountersNeverWrap ==
    [][ /\ (frame.pc = "loop" /\ frame'.pc = "loop") =>
              /\ frame.i < N
              /\ frame.i \in DOMAIN port1.state
              /\ frame.i = frame.iterations
              /\ frame'.i = frame.i + 1
        /\ (frame.pc = "loop" /\ frame'.pc = "index") =>
              /\ frame.i = N
              /\ frame.iterations = N
        /\ (frame.pc = "index") =>
              /\ port1.index < N
              /\ port1.index + 1 <= 255
              /\ port1'.index =
                     (IF port1.index + 1 = N THEN 0 ELSE port1.index + 1) ]_vars

\* With the largest history depth, the loop of a call whose sample has the
\* button asserted has run over all 255 slots and ended with i = 255.
C22_Witness ==
    /\ N = MaxDepth
    /\ frame.pc = "index"
    /\ frame.i = MaxDepth
    /\ frame.iterations = MaxDepth
    /\ port1.index = 0
    /\ port1.debouncedState # 255

\* ------------------------------------------------------------------------
\* C29  The interrupt-driven example never sleeps for ever
\* ------------------------------------------------------------------------

\* The processor sleeps in low power mode 4 with the button interrupt
\* requested.
PressedWhileAsleep == mcu.lpm = "LPM4" /\ mcu.P1IFG

\* C29: whenever the processor is in low power mode 4 the button interrupt
\* is enabled (P1IE and GIE set); between INTERRUPT_DISABLE() and the entry
\* of low power mode 4 interrupts are disabled, so that Port1() cannot run
\* there; and a button press that finds the processor asleep is followed by
\* its waking up.
C29_NeverSleepsForEver ==
    /\ [](mcu.lpm = "LPM4" => (mcu.P1IE /\ mcu.GIE))
    /\ [](mcu.pc \in {"enable", "lpm4"} => ~mcu.GIE)
    /\ [][ (mcu.pc \in {"enable", "lpm4"}) => (call'.op # "Port1"
                                                 \/ call' = call) ]_vars
    /\ (PressedWhileAsleep ~> (mcu.lpm = "active"))

\* The released branch of loop() has put the processor in low power mode 4
\* and the button has been pressed since: its interrupt is requested.
C29_Witness ==
    /\ mcu.program = "interrupt"
    /\ mcu.lpm = "LPM4"
    /\ call.op = "LPM_4_ENTER"
    /\ PerPinButtonReleased(port1, BUTTON) # 0
    /\ mcu.buttonPressed = FALSE
    /\ mcu.line = 0
    /\ mcu.P1IFG

\* ------------------------------------------------------------------------
\* C30  The LEDs follow the debounced state of the button
\* ------------------------------------------------------------------------

\* The debounced state of the button is pressed.
ButtonHeld == BitAnd(PerPinPressedBits(port1), BUTTON) # 0

\* C30: in both example programs, once loop() has looked at the edges of
\* the latest ButtonProcess call, the two LEDs are on exactly when the
\* debounced state of the button is pressed.
C30_LedsFollowButton ==
    (mcu.pc # "loop_check") => (mcu.leds <=> ButtonHeld)

\* The interrupt-driven program, woken by the button, has switched the
\* LEDs on and sleeps until the next watchdog tick.
C30_Witness ==
    /\ mcu.program = "interrupt"
    /\ mcu.lpm = "LPM0"
    /\ mcu.leds
    /\ ButtonHeld
    /\ mcu.buttonPressed

=============================================================================
